---- MODULE Spec2Model ----
(***************************************************************************)
(* Model of the cinematic studio: the capture session of CinematicStudio   *)
(* (handleGenerate, its timers and the MediaRecorder callbacks, the        *)
(* videoUrl release effect) and the pure helpers of CinematicCanvas        *)
(* (paintBars) and of the recorder configuration (videoBitsPerSecond).     *)
(*                                                                         *)
(* One action is one event-loop task: a handler together with the          *)
(* micro-task continuations of handleGenerate that it wakes up.            *)
(* Time is performance.now() in milliseconds, observed every TimeStep ms.  *)
(***************************************************************************)
EXTENDS Integers, Sequences, FiniteSets, TLC

VARIABLES
    \* ---- React state of CinematicStudio
    mounted,             \* the component is mounted
    settings,            \* [duration (s), frameRate, bloom (in 1/BloomSteps)]
    isGenerating,
    progress,            \* 0..100
    videoUrl,            \* NoUrl or an object-URL handle
    error,               \* NoError or a message
    \* ---- refs
    mediaRecorderRef,    \* NoId or the id of the recorder last stored
    progressIntervalRef, \* NoId or the id of the interval last stored
    \* ---- handleGenerate in flight
    pc,                  \* "idle" | "awaitDeadline" | "awaitStop"
    requests,            \* number of handleGenerate calls so far
    startTime,           \* performance.now() at line 116
    totalDuration,       \* settings.duration * 1000 at line 115
    deadlinePending,     \* the setTimeout of line 124 has not fired yet
    stopPromise,         \* [st, url, err] of the promise of line 101
    \* ---- platform
    canvasAttached,      \* canvasRef.current was set at the last request
    recorderAvailable,   \* MediaRecorder was defined at the last request
    now,                 \* performance.now()
    recState,            \* state of the session's MediaRecorder
    recConfig,           \* [frameRate, videoBitsPerSecond] of that recorder
    pendingStops,        \* recorders whose stop event is queued
    liveStreams,         \* captured streams whose track is still live
    liveIntervals,       \* intervals that are still scheduled
    urlCount,            \* handles made by URL.createObjectURL so far
    revoked,             \* handles given to URL.revokeObjectURL
    pendingCleanup,      \* videoUrl effect cleanups queued and not yet run
    \* ---- observation of the run (history)
    stopRequests,        \* recorder.stop() calls in the current session
    sinkErrored,         \* the session's sink has reported an error
    sessionPrevUrl,      \* videoUrl the last session was started with
    \* ---- paintBars, applied to drawn inputs
    frameW, frameH, aspectNum, aspectDen, painted, bars,
    \* ---- the recorder bitrate, applied to drawn inputs
    bloomNum, bloomDen, rateDone, rateResult,
    \* ---- CinematicCanvas: the render session of its [settings] effect
    canvasMounted,       \* the canvas component is mounted
    propSettings,        \* the settings prop of the last render: [parallax]
    effectQueued,        \* a commit has queued the effect (cleanup and body)
    canvasSession,       \* NoId or the effect run whose cleanup is registered
    closures,            \* per effect run: [settings, startTime, particles]
    animationFrameRef,   \* NoId (undefined) or the request id last stored
    rafPending,          \* pending requests: [id, session] of renderFrame
    rafIssued,           \* ids handed out by requestAnimationFrame so far
    canvasNow,           \* performance.now() / the frame timestamp
    framesPainted,       \* drawFrame calls so far
    lastFrame,           \* what the last drawFrame call was given
    \* ---- buildShotPlan, applied to drawn inputs
    planNum, planDen,    \* settings.duration = planNum / planDen
    planDone,
    shotPlan,            \* the array returned: [title, duration]
    \* ---- the camera-motion lookups, applied to drawn inputs
    motionId, camElapsed, camAxis, camDone,
    camSpeed,            \* getCameraSpeedMultiplier's result, in tenths
    camOffset            \* getCameraMotionOffset's result

studioVars == <<canvasAttached, recorderAvailable, mounted, settings, isGenerating, progress, videoUrl, error,
                mediaRecorderRef, progressIntervalRef, pc, requests, startTime,
                totalDuration, deadlinePending, stopPromise, now, recState,
                recConfig, pendingStops, liveStreams, liveIntervals, urlCount,
                revoked, pendingCleanup, stopRequests, sinkErrored,
                sessionPrevUrl>>
barVars == <<frameW, frameH, aspectNum, aspectDen, painted, bars>>
rateVars == <<bloomNum, bloomDen, rateDone, rateResult>>
canvasVars == <<canvasMounted, propSettings, effectQueued, canvasSession,
                closures, animationFrameRef, rafPending, rafIssued, canvasNow,
                framesPainted, lastFrame>>
planVars == <<planNum, planDen, planDone, shotPlan>>
cameraVars == <<motionId, camElapsed, camAxis, camDone, camSpeed, camOffset>>
pureVars == <<barVars, rateVars, canvasVars, planVars, cameraVars>>
vars == <<studioVars, barVars, rateVars, canvasVars, planVars, cameraVars>>

----------------------------------------------------------------------------
\* Bounds of the model

MaxRequests == 2      \* handleGenerate calls explored
MaxTime == 5000       \* performance.now() explored up to this value (ms)
MaxDuration == 4      \* longest settings.duration explored (s)
BloomSteps == 2       \* settings.bloom takes the values k/BloomSteps
MaxDim == 5           \* frame widths and heights 1..MaxDim
MaxAspect == 3        \* target aspect ratios p/q with p, q in 1..MaxAspect
MaxBloomDen == 20     \* bloom values n/d with d in 1..MaxBloomDen
ParallaxSteps == 1    \* settings.parallax takes the values k/ParallaxSteps
MaxCanvasSessions == 2 \* runs of the canvas effect explored
MaxFrames == 2        \* animation frames explored
MaxCanvasTime == 1    \* frame timestamps explored, in display frames
Seeds == 1            \* states of the generator behind Math.random explored
RandGrid == 10        \* Math.random() takes the values g/RandGrid
MaxPlanDen == 4       \* durations n/d with d in 1..MaxPlanDen
MaxElapsed == 5       \* elapsed times 0..MaxElapsed (s) given to the lookups

\* Program constants

MinDuration == 3              \* RangeField "Durée" min
MinFrameRate == 12            \* RangeField "Frame rate" min
MaxFrameRate == 60            \* RangeField "Frame rate" max
MsPerSecond == 1000           \* settings.duration * 1000
BitrateFloor == 2500000       \* Math.max(2_500_000, ...)
BitrateScale == 6000000       \* 6_000_000 * settings.bloom
FullProgress == 100           \* Math.min(100, ...), setProgress(100)
ParticleBase == 120           \* Math.round(120 * (parallax + 0.5))
SliderMaxDuration == 14       \* RangeField "Durée" max
Segments == 3                 \* buildShotPlan: const segments = 3
TimeStep == 1000              \* the clock is observed once per second

NoUrl == 0
NoId == 0
NoError == "none"

Min(a, b) == IF a <= b THEN a ELSE b
Max(a, b) == IF a >= b THEN a ELSE b

SettingsDomain ==
    [duration : MinDuration..MaxDuration,
     frameRate : {MinFrameRate, MaxFrameRate},
     bloom : 0..BloomSteps]

PendingPromise == [st |-> "pending", url |-> NoUrl, err |-> NoError]
\* a term scale * fn(angle / 100) of an offset; fn is Math.sin or Math.cos
Term(fn, angle, scale) == [fn |-> fn, angle |-> angle, scale |-> scale]
NoOffset == [x |-> Term("none", 0, 0), y |-> Term("none", 0, 0)]
NoFrame == [session |-> NoId, elapsed |-> 0, particleCount |-> 0,
            settings |-> [parallax |-> 0]]
NoConfig == [frameRate |-> 0, videoBitsPerSecond |-> 0]

----------------------------------------------------------------------------
\* Pure helpers of handleGenerate

\* Math.round(num / den) for num >= 0, den > 0: floor(x + 1/2)
Round(num, den) == (2 * num + den) \div (2 * den)

\* mutant: Math.floor instead of Math.round
VideoBitsFloored(n, d) == Max(BitrateFloor, (BitrateScale * n) \div d)

\* videoBitsPerSecond: Math.max(2_500_000, Math.round(6_000_000 * bloom)),
\* bloom = n / d
VideoBitsPerSecond(n, d) == Max(BitrateFloor, Round(BitrateScale * n, d))

\* mutant: the clamp at 100 is dropped
ProgressAtUnclamped(elapsed, total) == (elapsed * FullProgress) \div total

\* Math.min(100, (elapsed / totalDuration) * 100), on the integer grid
ProgressAt(elapsed, total) == Min(FullProgress, (elapsed * FullProgress) \div total)

\* mutant: the MediaRecorder check is missing
PreconditionCanvasOnly(canvas, recorderDefined) ==
    IF ~canvas THEN "canvasIntrouvable" ELSE NoError

\* the two early returns of handleGenerate: the message set, or NoError
PreconditionError(canvas, recorderDefined) ==
    IF ~canvas THEN "canvasIntrouvable"
    ELSE IF ~recorderDefined THEN "mediaRecorderIndisponible"
    ELSE NoError

\* mutant: the previous handle is left to the effect cleanup
RevokePreviousSkipped(url, rev) == rev
\* mutant: the previous artifact stays in videoUrl
UrlKept(url) == url

\* if (videoUrl) { URL.revokeObjectURL(videoUrl); setVideoUrl(null); }
RevokePrevious(url, rev) == IF url # NoUrl THEN rev \cup {url} ELSE rev
UrlAfterRevoke(url) == NoUrl

\* the cleanup of the [videoUrl] effect is queued when videoUrl changes
\* (or on unmount) and releases the value it closed over, if any
EffectCleanups(old, new, pending) ==
    IF old # new /\ old # NoUrl THEN pending \cup {old} ELSE pending

\* mutant: stop is requested whatever the recorder's state
AlwaysRequestStop(state) == TRUE

\* if (recorder.state !== "inactive") recorder.stop()
ShouldRequestStop(state) == state # "inactive"

\* finally: clearInterval(progressIntervalRef.current)
ClearInterval(ref, live) == IF ref # NoId THEN live \ {ref} ELSE live
\* finally: mediaRecorderRef.current?.stream.getTracks().forEach(stop)
StopTracks(ref, live) == IF ref # NoId THEN live \ {ref} ELSE live

\* the outcomes of the platform calls made before the first await
PlatformOutcomes == {"ok", "captureThrows", "recorderCtorThrows", "startThrows"}
\* err.message in the catch block
CatchMessage(outcome) ==
    CASE outcome = "captureThrows" -> "captureImpossible"
      [] outcome = "recorderCtorThrows" -> "notSupported"
      [] outcome = "startThrows" -> "startFailed"
      [] OTHER -> NoError

\* recorder.onerror: event.error's message, or the fallback of line 109
SinkErrors == {"sinkError", "erreurInconnue"}

----------------------------------------------------------------------------
\* Initial state: the component has mounted, nothing was generated yet

StudioInit ==
    /\ mounted = TRUE
    /\ canvasAttached = TRUE
    /\ recorderAvailable = TRUE
    /\ settings \in SettingsDomain
    /\ isGenerating = FALSE
    /\ progress = 0
    /\ videoUrl = NoUrl
    /\ error = NoError
    /\ mediaRecorderRef = NoId
    /\ progressIntervalRef = NoId
    /\ pc = "idle"
    /\ requests = 0
    /\ startTime = 0
    /\ totalDuration = 0
    /\ deadlinePending = FALSE
    /\ stopPromise = PendingPromise
    /\ now = 0
    /\ recState = "inactive"
    /\ recConfig = NoConfig
    /\ pendingStops = {}
    /\ liveStreams = {}
    /\ liveIntervals = {}
    /\ urlCount = 0
    /\ revoked = {}
    /\ pendingCleanup = {}
    /\ stopRequests = 0
    /\ sinkErrored = FALSE
    /\ sessionPrevUrl = NoUrl

\* the canvas component is not rendered
CanvasIdle ==
    /\ canvasMounted = FALSE
    /\ propSettings = [parallax |-> 0]
    /\ effectQueued = FALSE
    /\ canvasSession = NoId
    /\ closures = << >>
    /\ animationFrameRef = NoId
    /\ rafPending = {}
    /\ rafIssued = 0
    /\ canvasNow = 0
    /\ framesPainted = 0
    /\ lastFrame = NoFrame

PlanIdle ==
    /\ planNum = MinDuration /\ planDen = 1 /\ planDone = FALSE
    /\ shotPlan = << >>

CameraIdle ==
    /\ motionId = "orbit" /\ camElapsed = 0 /\ camAxis = 1
    /\ camDone = FALSE /\ camSpeed = 0 /\ camOffset = NoOffset

BarsIdle ==
    /\ frameW = 1 /\ frameH = 1 /\ aspectNum = 1 /\ aspectDen = 1
    /\ painted = FALSE /\ bars = <<>>

RateIdle ==
    /\ bloomNum = 0 /\ bloomDen = 1 /\ rateDone = FALSE /\ rateResult = 0

Init == StudioInit /\ BarsIdle /\ RateIdle /\ CanvasIdle /\ PlanIdle /\ CameraIdle

----------------------------------------------------------------------------
\* handleGenerate, lines 132-147: what runs once stopPromise `sp` is settled
\* (setVideoUrl/setProgress or the catch block, then the finally block).
\* State setters of an unmounted component do nothing.  The locals of the
\* call (totalDuration, the recorder's options) end with it.
AfterStopPromise(sp) ==
    /\ pc' = "idle"
    /\ IF mounted
       THEN /\ videoUrl' = IF sp.st = "resolved" THEN sp.url ELSE videoUrl
            /\ progress' = IF sp.st = "resolved" THEN FullProgress ELSE progress
            /\ error' = IF sp.st = "rejected" THEN sp.err ELSE error
            /\ isGenerating' = FALSE
       ELSE UNCHANGED <<videoUrl, progress, error, isGenerating>>
    /\ liveIntervals' = ClearInterval(progressIntervalRef, liveIntervals)
    /\ liveStreams' = StopTracks(mediaRecorderRef, liveStreams)
    /\ totalDuration' = 0
    /\ recConfig' = NoConfig

\* the task goes on without waking handleGenerate up
StillWaiting ==
    UNCHANGED <<videoUrl, progress, error, isGenerating, liveIntervals,
                liveStreams, totalDuration, recConfig>>

\* handleGenerate, lines 72-130, from the try to the first await.  The clock's
\* origin is moved to the call: nothing was scheduled before it.
TrySession(id, outcome) ==
    /\ sessionPrevUrl' = videoUrl
    /\ revoked' = RevokePrevious(videoUrl, revoked)
    /\ videoUrl' = UrlAfterRevoke(videoUrl)
    /\ pendingCleanup' = EffectCleanups(videoUrl, videoUrl', pendingCleanup)
    /\ progress' = 0
    /\ now' = 0
    /\ IF outcome = "ok"
       THEN /\ error' = NoError
            /\ isGenerating' = TRUE
            /\ pc' = "awaitDeadline"
            /\ liveStreams' = liveStreams \cup {id}
            /\ mediaRecorderRef' = id
            /\ recConfig' = [frameRate |-> settings.frameRate,
                             videoBitsPerSecond |->
                                 VideoBitsPerSecond(settings.bloom, BloomSteps)]
            /\ stopPromise' = PendingPromise
            /\ recState' = "recording"
            /\ totalDuration' = settings.duration * MsPerSecond
            /\ startTime' = now'
            /\ progressIntervalRef' = id
            /\ liveIntervals' = liveIntervals \cup {id}
            /\ deadlinePending' = TRUE
            /\ stopRequests' = 0
            /\ sinkErrored' = FALSE
       ELSE \* an exception: catch, then finally
            /\ error' = CatchMessage(outcome)
            /\ isGenerating' = FALSE
            /\ pc' = "idle"
            /\ mediaRecorderRef' =
                   IF outcome = "startThrows" THEN id ELSE mediaRecorderRef
            /\ liveStreams' =
                   StopTracks(mediaRecorderRef',
                              IF outcome = "captureThrows"
                              THEN liveStreams ELSE liveStreams \cup {id})
            /\ liveIntervals' = ClearInterval(progressIntervalRef, liveIntervals)
            /\ recState' = "inactive"
            /\ UNCHANGED <<recConfig, stopPromise, totalDuration, startTime,
                           progressIntervalRef, deadlinePending, stopRequests,
                           sinkErrored>>
    /\ UNCHANGED <<mounted, settings, pendingStops, urlCount>>

\* mutant: the button stays enabled during a session
GenerateAlwaysEnabled(generating) == FALSE

\* <button onClick={handleGenerate} disabled={isGenerating}>
GenerateDisabled(generating) == generating

\* the click on "Générer la séquence" (disabled while isGenerating)
HandleGenerate ==
    /\ UNCHANGED pureVars
    /\ mounted
    /\ ~GenerateDisabled(isGenerating)
    /\ requests < MaxRequests
    /\ requests' = requests + 1
    /\ canvasAttached' \in BOOLEAN
    /\ recorderAvailable' \in BOOLEAN
    /\ \E outcome \in PlatformOutcomes :
          LET pre == PreconditionError(canvasAttached', recorderAvailable') IN
          IF pre # NoError
          THEN /\ error' = pre
               /\ UNCHANGED <<mounted, settings, isGenerating, progress, videoUrl,
                              mediaRecorderRef, progressIntervalRef, pc, startTime,
                              totalDuration, deadlinePending, stopPromise, now,
                              recState, recConfig, pendingStops, liveStreams,
                              liveIntervals, urlCount, revoked, pendingCleanup,
                              stopRequests, sinkErrored, sessionPrevUrl>>
          ELSE TrySession(requests + 1, outcome)

\* the setTimeout callback of lines 124-129, and the continuation it resolves
DeadlineTimeout ==
    /\ UNCHANGED <<canvasAttached, recorderAvailable, pureVars>>
    /\ deadlinePending
    /\ now >= startTime + totalDuration
    /\ deadlinePending' = FALSE
    /\ IF ShouldRequestStop(recState)
       THEN /\ recState' = "inactive"
            /\ pendingStops' = pendingStops \cup {mediaRecorderRef}
            /\ stopRequests' = stopRequests + 1
       ELSE UNCHANGED <<recState, pendingStops, stopRequests>>
    /\ IF stopPromise.st # "pending"
       THEN AfterStopPromise(stopPromise)
       ELSE pc' = "awaitStop" /\ StillWaiting
    /\ UNCHANGED <<mounted, settings, mediaRecorderRef, progressIntervalRef,
                   requests, startTime, stopPromise, now, urlCount, revoked,
                   pendingCleanup, sinkErrored, sessionPrevUrl>>

\* recorder.onstop of recorder r (lines 102-106): the blob and its handle
RecorderOnStop ==
    /\ UNCHANGED <<canvasAttached, recorderAvailable, pureVars>>
    /\ \E r \in pendingStops :
       LET url == urlCount + 1
           settles == r = mediaRecorderRef /\ pc # "idle"
                         /\ stopPromise.st = "pending"
       IN
       /\ pendingStops' = pendingStops \ {r}
       /\ urlCount' = url
       /\ stopPromise' = IF settles
                         THEN [st |-> "resolved", url |-> url, err |-> NoError]
                         ELSE stopPromise
       /\ IF settles /\ pc = "awaitStop"
          THEN AfterStopPromise(stopPromise')
          ELSE UNCHANGED pc /\ StillWaiting
       /\ UNCHANGED <<mounted, settings, mediaRecorderRef, progressIntervalRef,
                      requests, startTime, deadlinePending, now, recState,
                      revoked, pendingCleanup, stopRequests, sinkErrored,
                      sessionPrevUrl>>

\* recorder.onerror (lines 107-110): the sink fails while it records or while
\* it finalizes; the platform inactivates the recorder and queues its stop event
RecorderOnError ==
    /\ UNCHANGED <<canvasAttached, recorderAvailable, pureVars>>
    /\ pc # "idle"
    /\ ~sinkErrored
    /\ recState = "recording" \/ mediaRecorderRef \in pendingStops
    /\ \E e \in SinkErrors :
       LET settles == stopPromise.st = "pending" IN
       /\ recState' = "inactive"
       /\ pendingStops' = pendingStops \cup {mediaRecorderRef}
       /\ sinkErrored' = TRUE
       /\ stopPromise' = IF settles
                         THEN [st |-> "rejected", url |-> NoUrl, err |-> e]
                         ELSE stopPromise
       /\ IF settles /\ pc = "awaitStop"
          THEN AfterStopPromise(stopPromise')
          ELSE UNCHANGED pc /\ StillWaiting
    /\ UNCHANGED <<mounted, settings, mediaRecorderRef, progressIntervalRef,
                   requests, startTime, deadlinePending, now, urlCount, revoked,
                   pendingCleanup, stopRequests, sessionPrevUrl>>

\* the setInterval callback of lines 118-121
ProgressIntervalTick ==
    /\ UNCHANGED <<canvasAttached, recorderAvailable, pureVars>>
    /\ liveIntervals # {}
    /\ now > startTime
    /\ mounted
    /\ progress' = ProgressAt(now - startTime, totalDuration)
    /\ UNCHANGED <<mounted, settings, isGenerating, videoUrl, error,
                   mediaRecorderRef, progressIntervalRef, pc, requests, startTime,
                   totalDuration, deadlinePending, stopPromise, now, recState,
                   recConfig, pendingStops, liveStreams, liveIntervals, urlCount,
                   revoked, pendingCleanup, stopRequests, sinkErrored,
                   sessionPrevUrl>>

\* performance.now() moves on; it is read only by the session's timers
AdvanceTime ==
    /\ UNCHANGED <<canvasAttached, recorderAvailable, pureVars>>
    /\ deadlinePending \/ liveIntervals # {}
    /\ now + TimeStep <= MaxTime
    /\ now' = now + TimeStep
    /\ UNCHANGED <<mounted, settings, isGenerating, progress, videoUrl, error,
                   mediaRecorderRef, progressIntervalRef, pc, requests, startTime,
                   totalDuration, deadlinePending, stopPromise, recState,
                   recConfig, pendingStops, liveStreams, liveIntervals, urlCount,
                   revoked, pendingCleanup, stopRequests, sinkErrored,
                   sessionPrevUrl>>

\* handleSettingChange(key, value), lines 46-54
HandleSettingChange ==
    /\ UNCHANGED <<canvasAttached, recorderAvailable, pureVars>>
    /\ mounted
    /\ \E key \in {"duration", "frameRate", "bloom"} :
         \E s \in SettingsDomain :
            /\ s # settings
            /\ \A k \in {"duration", "frameRate", "bloom"} :
                  k # key => s[k] = settings[k]
            /\ settings' = s
    /\ UNCHANGED <<mounted, isGenerating, progress, videoUrl, error,
                   mediaRecorderRef, progressIntervalRef, pc, requests, startTime,
                   totalDuration, deadlinePending, stopPromise, now, recState,
                   recConfig, pendingStops, liveStreams, liveIntervals, urlCount,
                   revoked, pendingCleanup, stopRequests, sinkErrored,
                   sessionPrevUrl>>

\* the studio unmounts: the [videoUrl] effect's cleanup is queued
Unmount ==
    /\ UNCHANGED <<canvasAttached, recorderAvailable, pureVars>>
    /\ mounted
    /\ mounted' = FALSE
    /\ pendingCleanup' = EffectCleanups(videoUrl, NoUrl, pendingCleanup)
    /\ UNCHANGED <<settings, isGenerating, progress, videoUrl, error,
                   mediaRecorderRef, progressIntervalRef, pc, requests, startTime,
                   totalDuration, deadlinePending, stopPromise, now, recState,
                   recConfig, pendingStops, liveStreams, liveIntervals, urlCount,
                   revoked, stopRequests, sinkErrored, sessionPrevUrl>>

\* the cleanup of the [videoUrl] effect, lines 38-44
VideoUrlEffectCleanup ==
    /\ UNCHANGED <<canvasAttached, recorderAvailable, pureVars>>
    /\ \E u \in pendingCleanup :
       /\ pendingCleanup' = pendingCleanup \ {u}
       /\ revoked' = revoked \cup {u}
       /\ UNCHANGED <<mounted, settings, isGenerating, progress, videoUrl, error,
                      mediaRecorderRef, progressIntervalRef, pc, requests,
                      startTime, totalDuration, deadlinePending, stopPromise, now,
                      recState, recConfig, pendingStops, liveStreams,
                      liveIntervals, urlCount, stopRequests, sinkErrored,
                      sessionPrevUrl>>

Next ==
    \/ HandleGenerate
    \/ DeadlineTimeout
    \/ RecorderOnStop
    \/ RecorderOnError
    \/ ProgressIntervalTick
    \/ AdvanceTime
    \/ HandleSettingChange
    \/ Unmount
    \/ VideoUrlEffectCleanup

Spec == Init /\ [][Next]_vars

\* Sanity of the model: types, and one session in flight at a time
TypeOK ==
    /\ settings \in SettingsDomain
    /\ progress \in 0..FullProgress
    /\ videoUrl \in 0..urlCount
    /\ pc \in {"idle", "awaitDeadline", "awaitStop"}
    /\ Cardinality(liveIntervals) <= 1
    /\ (mounted /\ ~isGenerating) => pc = "idle"
    /\ pc # "idle" => mediaRecorderRef = requests

----------------------------------------------------------------------------
\* Exact rational arithmetic for the frame geometry: [n, d] is n / d, d > 0

Q(n, d) == [n |-> n, d |-> d]
QInt(i) == Q(i, 1)
QSub(a, b) == Q(a.n * b.d - b.n * a.d, a.d * b.d)
QAdd(a, b) == Q(a.n * b.d + b.n * a.d, a.d * b.d)
QMul(a, b) == Q(a.n * b.n, a.d * b.d)
\* a / b for b > 0
QDiv(a, b) == Q(a.n * b.d, a.d * b.n)
QGt(a, b) == a.n * b.d > b.n * a.d
QEq(a, b) == a.n * b.d = b.n * a.d

RECURSIVE Gcd(_, _)
Gcd(a, b) == IF b = 0 THEN a ELSE Gcd(b, a % b)
\* the same number in lowest terms (n >= 0)
QReduce(q) == LET g == Gcd(q.n, q.d) IN Q(q.n \div g, q.d \div g)

\* ctx.fillRect(x, y, w, h)
FillRect(x, y, w, h) == [x |-> x, y |-> y, w |-> w, h |-> h]

\* paintBars(ctx, width, height, settings) with settings.aspectRatio = num/den:
\* the rectangles it fills, in order
PaintBars(width, height, num, den) ==
    LET targetAspect == Q(num, den)
        currentAspect == QDiv(QInt(width), QInt(height))
    IN IF QGt(currentAspect, targetAspect)
       THEN LET desiredHeight == QDiv(QInt(width), targetAspect)
                barHeight == QDiv(QSub(QInt(height), desiredHeight), QInt(2))
            IN IF QGt(barHeight, QInt(0))
               THEN << FillRect(QInt(0), QInt(0), QInt(width), barHeight),
                       FillRect(QInt(0), QSub(QInt(height), barHeight),
                                QInt(width), barHeight) >>
               ELSE << >>
       ELSE LET desiredWidth == QMul(QInt(height), targetAspect)
                barWidth == QDiv(QSub(QInt(width), desiredWidth), QInt(2))
            IN IF QGt(barWidth, QInt(0))
               THEN << FillRect(QInt(0), QInt(0), barWidth, QInt(height)),
                       FillRect(QSub(QInt(width), barWidth), QInt(0),
                                barWidth, QInt(height)) >>
               ELSE << >>

\* a frame of any size and any target aspect ratio is about to be painted
BarsInit ==
    /\ frameW \in 1..MaxDim
    /\ frameH \in 1..MaxDim
    /\ aspectNum \in 1..MaxAspect
    /\ aspectDen \in 1..MaxAspect
    /\ painted = FALSE
    /\ bars = << >>

\* drawFrame reaches paintBars
PaintBarsStep ==
    /\ ~painted
    /\ painted' = TRUE
    /\ bars' = PaintBars(frameW, frameH, aspectNum, aspectDen)
    /\ UNCHANGED <<frameW, frameH, aspectNum, aspectDen>>
    /\ UNCHANGED <<studioVars, rateVars, canvasVars, planVars, cameraVars>>

InitBars == StudioInit /\ BarsInit /\ RateIdle /\ CanvasIdle /\ PlanIdle /\ CameraIdle

NextBars == PaintBarsStep

SpecBars == InitBars /\ [][NextBars]_vars

\* a recorder is about to be constructed with bloom = bloomNum / bloomDen
RateInit ==
    /\ bloomDen \in 1..MaxBloomDen
    /\ bloomNum \in 0..bloomDen
    /\ rateDone = FALSE
    /\ rateResult = 0

\* new MediaRecorder(stream, { videoBitsPerSecond: ... })
ConfigureRecorder ==
    /\ ~rateDone
    /\ rateDone' = TRUE
    /\ rateResult' = VideoBitsPerSecond(bloomNum, bloomDen)
    /\ UNCHANGED <<bloomNum, bloomDen>>
    /\ UNCHANGED <<studioVars, barVars, canvasVars, planVars, cameraVars>>

InitBitrate == StudioInit /\ BarsIdle /\ RateInit /\ CanvasIdle /\ PlanIdle /\ CameraIdle

NextBitrate == ConfigureRecorder

SpecBitrate == InitBitrate /\ [][NextBitrate]_vars

----------------------------------------------------------------------------
\* CinematicCanvas: the effect of lines 43-121 and its animation frames

\* the g-th value of the generator behind Math.random, as k/RandGrid
Rand(seed, k) == (seed * 7 + k * 3) % RandGrid

\* Math.round(120 * (parallax + 0.5)) for parallax = p / ParallaxSteps
ParticleCount(p) == Round(ParticleBase * (2 * p + ParallaxSteps), 2 * ParallaxSteps)

\* one element of the particles array (index from 0).  The fields are kept
\* as numerators: baseX, baseY over RandGrid, amplitude over 100 * RandGrid,
\* speed and radius over 10 * RandGrid
NewParticle(seed, index) ==
    [baseX |-> Rand(seed, 5 * index),
     baseY |-> Rand(seed, 5 * index + 1),
     amplitude |-> 5 * RandGrid + 35 * Rand(seed, 5 * index + 2),
     speed |-> 6 * RandGrid + 12 * Rand(seed, 5 * index + 3),
     radius |-> 6 * RandGrid + 19 * Rand(seed, 5 * index + 4),
     axis |-> IF index % 2 = 0 THEN 1 ELSE -1]

\* Array.from({ length: particleCount }).map(...)
SeedParticles(seed, count) == [i \in 1..count |-> NewParticle(seed, i - 1)]

\* mutant: the pass writes the moved position back into the particle
PaintParticlesAdvancing(particles, elapsed) ==
    [stored |-> [i \in DOMAIN particles |->
                    [particles[i] EXCEPT !.baseX = (@ + 1) % RandGrid]],
     rects |-> Len(particles)]

\* paintParticles: one fillRect per particle, at a position computed from the
\* particle's fields and elapsed; the array it was given, after the pass
PaintParticles(particles, elapsed) ==
    [stored |-> particles, rects |-> Len(particles)]

\* mutant: the cleanup does not cancel
CancelSkipped(ref, pending) == pending

\* cancelAnimationFrame(id): the request with that id, if pending, is dropped
CancelAnimationFrame(ref, pending) == {r \in pending : r.id # ref}

\* the cleanup returned at line 116
EffectCleanup(ref, pending) ==
    IF ref # NoId THEN CancelAnimationFrame(ref, pending) ELSE pending

\* the settings prop: any value of the parallax slider
PropDomain == [parallax : 0..ParallaxSteps]

\* the canvas has been rendered; its effect is about to run for the first time
CanvasInit ==
    /\ canvasMounted = TRUE
    /\ propSettings \in PropDomain
    /\ effectQueued = TRUE
    /\ canvasSession = NoId
    /\ closures = << >>
    /\ animationFrameRef = NoId
    /\ rafPending = {}
    /\ rafIssued = 0
    /\ canvasNow = 0
    /\ framesPainted = 0
    /\ lastFrame = NoFrame

\* the parent renders the canvas with a new settings object
PropsChange ==
    /\ canvasMounted
    /\ Len(closures) + (IF effectQueued THEN 1 ELSE 0) < MaxCanvasSessions
    /\ propSettings' \in PropDomain
    /\ effectQueued' = TRUE
    /\ UNCHANGED <<canvasMounted, canvasSession, closures, animationFrameRef,
                   rafPending, rafIssued, canvasNow, framesPainted, lastFrame>>
    /\ UNCHANGED <<studioVars, barVars, rateVars, planVars, cameraVars>>

\* the canvas is removed
CanvasUnmount ==
    /\ canvasMounted
    /\ canvasMounted' = FALSE
    /\ effectQueued' = TRUE
    /\ UNCHANGED <<propSettings, canvasSession, closures, animationFrameRef,
                   rafPending, rafIssued, canvasNow, framesPainted, lastFrame>>
    /\ UNCHANGED <<studioVars, barVars, rateVars, planVars, cameraVars>>

\* React flushes the effect: the cleanup of the previous run (if it returned
\* one), then, while mounted, the body of lines 44-115
FlushEffect ==
    /\ effectQueued
    /\ effectQueued' = FALSE
    /\ LET afterCleanup ==
               IF canvasSession # NoId
               THEN EffectCleanup(animationFrameRef, rafPending)
               ELSE rafPending
       IN IF canvasMounted
          THEN \E context \in BOOLEAN : \E seed \in 1..Seeds :
                 IF context
                 THEN LET session == Len(closures) + 1
                          request == rafIssued + 1
                      IN /\ closures' = Append(closures,
                               [settings |-> propSettings,
                                startTime |-> canvasNow,
                                particles |-> SeedParticles(seed,
                                    ParticleCount(propSettings.parallax))])
                         /\ canvasSession' = session
                         /\ rafIssued' = request
                         /\ animationFrameRef' = request
                         /\ rafPending' = afterCleanup \cup
                                {[id |-> request, session |-> session]}
                 ELSE \* no canvas or no 2d context: the body returns nothing
                      /\ canvasSession' = NoId
                      /\ rafPending' = afterCleanup
                      /\ UNCHANGED <<closures, rafIssued, animationFrameRef>>
          ELSE /\ canvasSession' = NoId
               /\ rafPending' = afterCleanup
               /\ UNCHANGED <<closures, rafIssued, animationFrameRef>>
    /\ UNCHANGED <<canvasMounted, propSettings, canvasNow, framesPainted,
                   lastFrame>>
    /\ UNCHANGED <<studioVars, barVars, rateVars, planVars, cameraVars>>

\* the browser runs a pending renderFrame (lines 98-112)
RenderFrame ==
    /\ framesPainted < MaxFrames
    /\ \E r \in rafPending :
       LET c == closures[r.session]
           elapsed == canvasNow - c.startTime
           pass == PaintParticles(c.particles, elapsed)
           request == rafIssued + 1
       IN /\ lastFrame' = [session |-> r.session, elapsed |-> elapsed,
                           particleCount |-> pass.rects,
                           settings |-> c.settings]
          /\ closures' = [closures EXCEPT ![r.session].particles = pass.stored]
          /\ rafIssued' = request
          /\ animationFrameRef' = request
          /\ rafPending' = (rafPending \ {r}) \cup
                               {[id |-> request, session |-> r.session]}
    /\ framesPainted' = framesPainted + 1
    /\ UNCHANGED <<canvasMounted, propSettings, effectQueued, canvasSession,
                   canvasNow>>
    /\ UNCHANGED <<studioVars, barVars, rateVars, planVars, cameraVars>>

\* the next display frame
FrameTick ==
    /\ rafPending # {}
    /\ canvasNow < MaxCanvasTime
    /\ canvasNow' = canvasNow + 1
    /\ UNCHANGED <<canvasMounted, propSettings, effectQueued, canvasSession,
                   closures, animationFrameRef, rafPending, rafIssued,
                   framesPainted, lastFrame>>
    /\ UNCHANGED <<studioVars, barVars, rateVars, planVars, cameraVars>>

\* the studio around the canvas stays as constructed; what it passes down is
\* propSettings
StudioAtRest ==
    /\ StudioInit
    /\ settings = [duration |-> MinDuration, frameRate |-> MinFrameRate,
                   bloom |-> 0]

InitCanvas == StudioAtRest /\ BarsIdle /\ RateIdle /\ CanvasInit /\ PlanIdle /\ CameraIdle

NextCanvas ==
    \/ PropsChange
    \/ CanvasUnmount
    \/ FlushEffect
    \/ RenderFrame
    \/ FrameTick

SpecCanvas == InitCanvas /\ [][NextCanvas]_vars

----------------------------------------------------------------------------
\* buildShotPlan (lines 482-507)

\* mutant: the three shots share the duration evenly
BuildShotPlanEven(num, den) ==
    LET segmentDuration == QDiv(Q(num, den), QInt(Segments))
    IN << [title |-> "Plan d'ouverture", duration |-> segmentDuration],
          [title |-> "Plan median", duration |-> segmentDuration],
          [title |-> "Plan final", duration |-> segmentDuration] >>

\* buildShotPlan(settings) with settings.duration = num / den
BuildShotPlan(num, den) ==
    LET segmentDuration == QDiv(Q(num, den), QInt(Segments))
    IN << [title |-> "Plan d'ouverture",
           duration |-> QMul(segmentDuration, Q(11, 10))],
          [title |-> "Plan median",
           duration |-> QMul(segmentDuration, Q(9, 10))],
          [title |-> "Plan final",
           duration |-> QMul(segmentDuration, Q(12, 10))] >>

\* a plan is about to be built for any duration the slider allows
PlanInit ==
    /\ planDen \in 1..MaxPlanDen
    /\ planNum \in (MinDuration * planDen)..(SliderMaxDuration * planDen)
    /\ planDone = FALSE
    /\ shotPlan = << >>

\* useMemo(() => buildShotPlan(settings), [settings])
BuildShotPlanStep ==
    /\ ~planDone
    /\ planDone' = TRUE
    /\ shotPlan' = BuildShotPlan(planNum, planDen)
    /\ UNCHANGED <<planNum, planDen>>
    /\ UNCHANGED <<studioVars, barVars, rateVars, canvasVars, cameraVars>>

InitPlan == StudioAtRest /\ BarsIdle /\ RateIdle /\ CanvasIdle /\ PlanInit /\ CameraIdle

NextPlan == BuildShotPlanStep

SpecPlan == InitPlan /\ [][NextPlan]_vars

----------------------------------------------------------------------------
\* The camera-motion lookups of CinematicCanvas (lines 379-421)

\* the ids of the cases of the two switches, and ids they do not name
CatalogIds == {"orbit", "dolly", "drift", "pulse"}
OtherIds == {"zoom", ""}

\* mutant: the switch has no default
SpeedMultiplierWithoutDefault(id) ==
    CASE id = "dolly" -> 14
      [] id = "drift" -> 9
      [] id = "pulse" -> 18
      [] id = "orbit" -> 10
      [] OTHER -> 0

\* getCameraSpeedMultiplier(motionId), in tenths
GetCameraSpeedMultiplier(id) ==
    CASE id = "dolly" -> 14
      [] id = "drift" -> 9
      [] id = "pulse" -> 18
      [] OTHER -> 10

\* getCameraMotionOffset(motionId, elapsed, axis); angles in hundredths
GetCameraMotionOffset(id, elapsed, axis) ==
    CASE id = "dolly" ->
           [x |-> Term("sin", elapsed * 40, 420 * axis),
            y |-> Term("cos", elapsed * 25, 280)]
      [] id = "drift" ->
           [x |-> Term("sin", elapsed * 60 + 100 * axis, 320),
            y |-> Term("sin", elapsed * 35 + 100 * axis, 220)]
      [] id = "pulse" ->
           [x |-> Term("sin", elapsed * 300, 65),
            y |-> Term("cos", elapsed * 150, 45)]
      [] OTHER ->
           [x |-> Term("cos", elapsed * 35, 380),
            y |-> Term("sin", elapsed * 30, 200)]

\* a frame is about to look the camera up, for any id
CameraInit ==
    /\ motionId \in CatalogIds \cup OtherIds
    /\ camElapsed \in 0..MaxElapsed
    /\ camAxis \in {1, -1}
    /\ camDone = FALSE
    /\ camSpeed = 0
    /\ camOffset = NoOffset

\* paintParallaxShapes and paintParticles look the camera up
LookupCamera ==
    /\ ~camDone
    /\ camDone' = TRUE
    /\ camSpeed' = GetCameraSpeedMultiplier(motionId)
    /\ camOffset' = GetCameraMotionOffset(motionId, camElapsed, camAxis)
    /\ UNCHANGED <<motionId, camElapsed, camAxis>>
    /\ UNCHANGED <<studioVars, barVars, rateVars, canvasVars, planVars>>

InitCamera ==
    StudioAtRest /\ BarsIdle /\ RateIdle /\ CanvasIdle /\ PlanIdle /\ CameraInit

NextCamera == LookupCamera

SpecCamera == InitCamera /\ [][NextCamera]_vars

----------------------------------------------------------------------------
\* Claims about the capture session

\* C1: once a capture attempt that got past the precondition checks has left
\* handleGenerate (isGenerating is false again), every track of the stream it
\* opened is stopped and its progress interval is cleared: no live track and
\* no live timer remains.
C1_ReleasedOnEveryExit ==
    (pc = "idle" /\ ~isGenerating) => (liveStreams = {} /\ liveIntervals = {})

\* C2: once the studio has unmounted while a session is recording, the
\* session's tracks are stopped and its progress interval is cleared, also
\* while the recorder's stop promise is still unsettled.
C2_TeardownReleases ==
    (~mounted /\ pc # "idle" /\ stopPromise.st = "pending")
        => (liveStreams = {} /\ liveIntervals = {})

\* a session that was recording ends in this step, in the mounted studio
SessionEnds == pc # "idle" /\ pc' = "idle" /\ mounted

\* C3 (as claimed): within a session the progress value never decreases from
\* one update to the next, and every session that reached its stop deadline
\* ends with progress exactly 100, whatever its outcome.
C3_ProgressFullWhateverOutcome ==
    [][ /\ pc # "idle" => progress' >= progress
        /\ (SessionEnds /\ ~deadlinePending') => progress' = FullProgress ]_vars

\* C3 (amended): within a session the progress value never decreases from one
\* update to the next, and every session that ends Complete (its artifact is
\* retained as videoUrl) ends with progress exactly 100.
C3_ProgressMonotoneFullOnComplete ==
    [][ /\ pc # "idle" => progress' >= progress
        /\ (SessionEnds /\ videoUrl' # NoUrl) => progress' = FullProgress ]_vars

\* C3 witness: a session was sampled below 100 by its interval, then
\* completed at 100
C3_Witness ==
    /\ mounted /\ pc = "idle" /\ videoUrl # NoUrl
    /\ progress = FullProgress /\ stopPromise.st = "resolved"

\* C4: the step in which the sink reports an error while the session records
\* takes the session directly to Failed: the error is surfaced and the
\* session's track and interval are released in that step, not at the deadline.
C4_SinkErrorFailsDirectly ==
    [][ (stopPromise.st = "pending" /\ stopPromise'.st = "rejected") =>
          /\ pc' = "idle"
          /\ mounted => (error' = stopPromise'.err /\ ~isGenerating')
          /\ mediaRecorderRef \notin liveStreams'
          /\ progressIntervalRef \notin liveIntervals' ]_vars

\* C5: when a session is started while the artifact handle of a previous
\* session is held, that handle has been released by the time the session's
\* recorder creates a new handle (URL.createObjectURL in onstop), whatever the
\* order of the start, the recorder callbacks and the release effect.
C5_PreviousReleasedBeforeNew ==
    [][ (urlCount' > urlCount /\ pc # "idle" /\ sessionPrevUrl # NoUrl)
           => sessionPrevUrl \in revoked ]_vars

\* C5 witness: the second session, started while handle 1 was held, has
\* created and retained handle 2
C5_Witness ==
    sessionPrevUrl = 1 /\ urlCount = 2 /\ videoUrl = 2 /\ pc = "idle"

\* the outcomes of a session, read in the state after its last step
Complete ==
    /\ videoUrl # NoUrl /\ videoUrl \notin revoked
    /\ stopPromise.st = "resolved" /\ videoUrl = stopPromise.url
    /\ error = NoError
Failed == videoUrl = NoUrl /\ error \in SinkErrors

\* C6: every session that entered Recording ends either Complete, with one
\* live artifact handle retained and no error, or Failed, with an error
\* message and no artifact retained, and never both.
C6_SingleTerminalOutcome ==
    [][ SessionEnds => ((Complete' \/ Failed') /\ ~(Complete' /\ Failed')) ]_vars

\* C6 witness: a session has ended Failed although its recorder's stop event
\* produced a blob handle; the handle was not handed to the caller
C6_Witness ==
    /\ mounted /\ pc = "idle" /\ Failed /\ stopPromise.st = "rejected"
    /\ urlCount > 0 /\ requests = 1

\* handleGenerate was called in this step and found no canvas or no
\* MediaRecorder
RequestRefused ==
    requests' = requests + 1 /\ (~canvasAttached' \/ ~recorderAvailable')

\* C7: a capture request made without a render surface or without the
\* MediaRecorder capability only surfaces an error message: the session stays
\* Idle, no stream or recorder is opened, no deadline or interval is
\* scheduled, progress is unchanged and a retained artifact is neither
\* released nor replaced.
C7_RefusedRequestOnlySetsError ==
    [][ RequestRefused =>
          /\ error' \in {"canvasIntrouvable", "mediaRecorderIndisponible"}
          /\ ~isGenerating' /\ pc' = "idle"
          /\ UNCHANGED <<progress, videoUrl, revoked, pendingCleanup, urlCount>>
          /\ UNCHANGED <<liveStreams, mediaRecorderRef, recState, recConfig,
                         stopPromise, pendingStops>>
          /\ UNCHANGED <<liveIntervals, progressIntervalRef, deadlinePending,
                         totalDuration>> ]_vars

\* C7 witness: a request was refused for lack of MediaRecorder while the
\* artifact of an earlier session was retained, and the artifact is still live
C7_Witness ==
    /\ error = "mediaRecorderIndisponible" /\ ~recorderAvailable
    /\ videoUrl # NoUrl /\ videoUrl \notin revoked /\ progress = FullProgress
    /\ pc = "idle" /\ ~isGenerating

\* recorder.stop() is called in this step
StopRequested == stopRequests' = stopRequests + 1
\* the deadline timer fires in this step
DeadlineFires == deadlinePending /\ ~deadlinePending'

\* C8: in every session recorder.stop() is requested at most once, only by
\* the deadline timer, no earlier than settings.duration seconds (as set when
\* the session started) after recorder.start() returned, and only if the
\* recorder is not inactive at that moment.
C8_StopOnceAtDeadline ==
    [][ /\ stopRequests' <= 1
        /\ (pc = "idle" /\ pc' # "idle") =>
              /\ recState' = "recording" /\ stopRequests' = 0
              /\ totalDuration' = settings.duration * MsPerSecond
              /\ startTime' = now'
        /\ StopRequested =>
              /\ DeadlineFires
              /\ now >= startTime + totalDuration
              /\ recState = "recording" /\ recState' = "inactive"
        /\ (DeadlineFires /\ recState = "inactive") => ~StopRequested ]_vars

\* C8 witness: the deadline has fired on a recording sink and stop was
\* requested; the session waits for the stop event
C8_Witness ==
    /\ pc = "awaitStop" /\ stopRequests = 1 /\ ~deadlinePending
    /\ recState = "inactive" /\ now >= startTime + totalDuration

\* the handles made by URL.createObjectURL and not given to revokeObjectURL
UnreleasedHandles == {u \in 1..urlCount : u \notin revoked}

\* C16: every artifact handle created by URL.createObjectURL is released,
\* or is the retained artifact (videoUrl), or is on its way to one of the
\* two (resolved to a handleGenerate that still waits, or held by a release
\* effect that is queued); in particular a session that ended Failed has left
\* no handle behind, and at most one unreleased handle exists at any time.
C16_HandlesRetainedOrReleased ==
    /\ Cardinality(UnreleasedHandles) <= 1
    /\ \A u \in UnreleasedHandles :
          \/ mounted /\ u = videoUrl
          \/ u \in pendingCleanup
          \/ /\ pc # "idle" /\ mounted
             /\ stopPromise.st = "resolved" /\ stopPromise.url = u

\* a session passes the precondition checks and starts recording in this step
SessionStarts == requests' = requests + 1 /\ pc' # "idle"

\* C17: at most one capture session is in flight at any time: a session
\* starts only while none is in flight, no recorder is recording and no
\* progress interval is live, so at most one interval is live at any time;
\* in the mounted studio isGenerating is true exactly while a session that
\* passed its precondition checks has not run its finally block; and a
\* session keeps the duration, frame rate and bloom (bitrate) it was started
\* with until it ends, whatever happens to the settings meanwhile.
C17_OneSessionWithSettingsSnapshot ==
    [][ /\ Cardinality(liveIntervals') <= 1
        /\ mounted' => (isGenerating' <=> pc' # "idle")
        /\ requests' = requests + 1 => (pc = "idle" /\ ~isGenerating)
        /\ SessionStarts =>
              /\ recState = "inactive" /\ liveIntervals = {}
              /\ recState' = "recording" /\ liveIntervals' = {requests'}
              /\ totalDuration' = settings.duration * MsPerSecond
              /\ recConfig'.frameRate = settings.frameRate
              /\ recConfig'.videoBitsPerSecond =
                     Max(BitrateFloor,
                         Round(BitrateScale * settings.bloom, BloomSteps))
        /\ (pc # "idle" /\ pc' # "idle") =>
              /\ totalDuration' = totalDuration
              /\ recConfig' = recConfig
              /\ startTime' = startTime
              /\ mediaRecorderRef' = mediaRecorderRef
              /\ requests' = requests
        /\ (pc # "idle" /\ DeadlineFires) =>
              now >= startTime + totalDuration ]_vars

\* C17 witness: a session is past its deadline, waiting for the stop event,
\* while the settings no longer are those it was started with
C17_Witness ==
    /\ mounted /\ isGenerating /\ pc = "awaitStop"
    /\ totalDuration # settings.duration * MsPerSecond
    /\ recConfig.frameRate # settings.frameRate
    /\ recConfig.videoBitsPerSecond #
           VideoBitsPerSecond(settings.bloom, BloomSteps)
    /\ Cardinality(liveIntervals) = 1

----------------------------------------------------------------------------
\* Claims about the pure helpers

\* C9: for every bloom = bloomNum / bloomDen in [0,1] the recorder's bitrate is
\* max(2_500_000, round(6_000_000 * bloom)): it is at least 2_500_000; above
\* that floor it is the integer nearest to 6_000_000 * bloom (halves up), and
\* at the floor that integer is no larger than the floor; it does not
\* decrease when bloom grows; and it is 3_000_000 for bloom = 1/2.
C9_BitrateIsMaxOfFloorAndRounded ==
    rateDone =>
       LET twiceX == 2 * BitrateScale * bloomNum   \* 2 * 6_000_000 * bloom * bloomDen
       IN /\ rateResult >= BitrateFloor
          /\ rateResult > BitrateFloor =>
                /\ (2 * rateResult - 1) * bloomDen <= twiceX
                /\ twiceX < (2 * rateResult + 1) * bloomDen
          /\ rateResult = BitrateFloor =>
                twiceX < (2 * BitrateFloor + 1) * bloomDen
          /\ \A d \in 1..MaxBloomDen : \A n \in 0..d :
                n * bloomDen <= bloomNum * d
                    => VideoBitsPerSecond(n, d) <= rateResult
          /\ 2 * bloomNum = bloomDen => rateResult = 3000000

\* C9 witness: bloom = 3/7, where 6_000_000 * bloom = 2_571_428.57... is
\* rounded up and exceeds the floor
C9_Witness ==
    rateDone /\ bloomNum = 3 /\ bloomDen = 7 /\ rateResult = 2571429

\* C10: for a frame with width/height > targetAspect, paintBars draws exactly
\* two bars, one at the top edge and one at the bottom edge, over the full
\* width, of equal and strictly positive height, and the two heights sum to
\* height - width/targetAspect.
C10_WideFrameGetsTopAndBottomBars ==
    (painted /\ QGt(QDiv(QInt(frameW), QInt(frameH)), Q(aspectNum, aspectDen)))
    => /\ Len(bars) = 2
       /\ LET top == bars[1]
              bottom == bars[2]
              claimedSum ==
                  QSub(QInt(frameH), QDiv(QInt(frameW), Q(aspectNum, aspectDen)))
          IN /\ QEq(top.x, QInt(0)) /\ QEq(top.w, QInt(frameW))
             /\ QEq(bottom.x, QInt(0)) /\ QEq(bottom.w, QInt(frameW))
             /\ QEq(top.y, QInt(0))
             /\ QEq(QAdd(bottom.y, bottom.h), QInt(frameH))
             /\ QEq(top.h, bottom.h)
             /\ QGt(top.h, QInt(0))
             /\ QEq(QAdd(top.h, bottom.h), claimedSum)

----------------------------------------------------------------------------
\* Claims about the canvas render session

\* a frame is painted in this step
FramePainted == framesPainted' = framesPainted + 1

\* C12: every render session's particle set has exactly
\* round(120 * (parallax + 0.5)) particles (the integer within 1/2 of that
\* product, halves up), created in the step that starts the session; painting
\* a frame draws each of them and leaves the particle count and every stored
\* field of every particle as they were, and the set of a session never
\* changes in any later step: another set exists only as the set of another
\* session.
C12_ParticlesFixedForSession ==
    [][ /\ \A s \in 1..Len(closures') :
            LET count == Len(closures'[s].particles)
                \* 2 * ParallaxSteps * 120 * (parallax + 0.5)
                twiceX == ParticleBase *
                    (2 * closures'[s].settings.parallax + ParallaxSteps)
            IN /\ (2 * count - 1) * ParallaxSteps <= twiceX
               /\ twiceX < (2 * count + 1) * ParallaxSteps
               /\ \A i \in 1..count :
                     closures'[s].particles[i].axis =
                         (IF i % 2 = 1 THEN 1 ELSE -1)
        /\ \A s \in 1..Len(closures) : closures'[s] = closures[s]
        /\ Len(closures') > Len(closures) =>
              /\ Len(closures') = Len(closures) + 1
              /\ canvasSession' = Len(closures')
              /\ canvasSession' # canvasSession
        /\ FramePainted =>
              lastFrame'.particleCount =
                  Len(closures[lastFrame'.session].particles) ]_vars

\* C12 witness: the second session, started with parallax 1/ParallaxSteps,
\* has painted two frames with its own set, at two different elapsed times
C12_Witness ==
    /\ canvasSession = 2 /\ framesPainted >= 2 /\ lastFrame.session = 2
    /\ lastFrame.elapsed > 0
    /\ closures[2].settings.parallax = 1
    /\ lastFrame.particleCount = Len(closures[2].particles)
    /\ lastFrame.particleCount = ParticleCount(1)
    /\ closures[1].particles # closures[2].particles

\* the effect is flushed in this step: the previous run is torn down
Teardown == effectQueued /\ ~effectQueued'

\* C15: tearing the frame clock down (after a settings change or an unmount)
\* cancels the pending animation-frame request: afterwards no request of the
\* torn-down session is pending, every frame is painted by the session that
\* is current, with that session's settings and start time, and at most one
\* request is pending at any time; a teardown with no request pending leaves
\* none pending but the new session's own.  While the canvas stays mounted
\* (and has a 2d context) the teardown starts a fresh session: newly seeded
\* particles, the new settings, a start time read at that moment and one
\* request; after an unmount nothing is pending.
C15_TeardownCancelsPendingFrame ==
    [][ /\ Cardinality(rafPending') <= 1
        /\ \A r \in rafPending' : r.session = canvasSession'
        /\ FramePainted =>
              /\ canvasSession # NoId
              /\ lastFrame'.session = canvasSession
              /\ lastFrame'.settings = closures[canvasSession].settings
              /\ lastFrame'.elapsed =
                     canvasNow - closures[canvasSession].startTime
        /\ Teardown =>
              /\ \A r \in rafPending' : r \notin rafPending
              /\ rafPending = {} => rafPending' \subseteq
                    {[id |-> rafIssued + 1, session |-> Len(closures) + 1]}
              /\ ~canvasMounted => (rafPending' = {} /\ canvasSession' = NoId)
              /\ canvasSession' # NoId =>
                    /\ canvasMounted
                    /\ canvasSession' = Len(closures) + 1
                    /\ Len(closures') = Len(closures) + 1
                    /\ closures'[canvasSession'].settings = propSettings
                    /\ closures'[canvasSession'].startTime = canvasNow
                    /\ \E seed \in 1..Seeds :
                          closures'[canvasSession'].particles =
                              SeedParticles(seed,
                                            ParticleCount(propSettings.parallax))
                    /\ rafPending' = {[id |-> animationFrameRef',
                                       session |-> canvasSession']}
                    /\ animationFrameRef' = rafIssued' ]_vars

\* C15 witness: the first session painted a frame and was torn down by a
\* settings change while its next request was pending; the second session
\* has painted a frame and holds the only pending request
C15_Witness ==
    /\ canvasMounted /\ canvasSession = 2 /\ ~effectQueued
    /\ framesPainted = 2 /\ rafIssued = 4 /\ lastFrame.session = 2
    /\ rafPending = {[id |-> 4, session |-> 2]}

----------------------------------------------------------------------------
\* Claims about the shot plan

\* C13: for every duration buildShotPlan returns exactly 3 entries, in the
\* order opening, midpoint, finale, whose durations are 11/30, 9/30 and 12/30
\* of the duration ((duration / 3) times 1.1, 0.9 and 1.2), so that they sum to
\* 32/30 of the duration and not to the duration.
C13_ThreeShotsSumAboveDuration ==
    planDone =>
       LET duration == Q(planNum, planDen)
           Thirty(q) == QMul(QInt(30), q)
       IN /\ Len(shotPlan) = 3
          /\ shotPlan[1].title = "Plan d'ouverture"
          /\ shotPlan[2].title = "Plan median"
          /\ shotPlan[3].title = "Plan final"
          /\ QEq(Thirty(shotPlan[1].duration), QMul(QInt(11), duration))
          /\ QEq(Thirty(shotPlan[2].duration), QMul(QInt(9), duration))
          /\ QEq(Thirty(shotPlan[3].duration), QMul(QInt(12), duration))
          /\ LET sum == QReduce(QAdd(QReduce(QAdd(QReduce(shotPlan[1].duration),
                                                     QReduce(shotPlan[2].duration))),
                                     QReduce(shotPlan[3].duration)))
             IN /\ QEq(Thirty(sum), QMul(QInt(32), duration))
                /\ ~QEq(sum, duration)
                /\ QGt(sum, duration)

\* C13 witness: the plan of a 7.5 s sequence: 2.75 s, 2.25 s and 3 s, 8 s in all
C13_Witness ==
    /\ planDone /\ planNum = 15 /\ planDen = 2
    /\ QEq(shotPlan[1].duration, Q(11, 4))
    /\ QEq(shotPlan[2].duration, Q(9, 4))
    /\ QEq(shotPlan[3].duration, QInt(3))

----------------------------------------------------------------------------
\* Claims about the camera-motion lookups

\* C14: the camera-motion lookup is total: for each of orbit, dolly, drift
\* and pulse the speed multiplier and the offset are that id's own entry
\* (multipliers 1, 1.4, 0.9 and 1.8; four different offset formulas), and for
\* an id outside the catalog both are what they are for orbit (multiplier 1),
\* a value and never an error.
C14_CameraLookupTotalWithOrbitDefault ==
    camDone =>
       LET e == camElapsed
           own == [orbit |-> [speed |-> 10,
                              x |-> Term("cos", 35 * e, 380),
                              y |-> Term("sin", 30 * e, 200)],
                   dolly |-> [speed |-> 14,
                              x |-> Term("sin", 40 * e, 420 * camAxis),
                              y |-> Term("cos", 25 * e, 280)],
                   drift |-> [speed |-> 9,
                              x |-> Term("sin", 60 * e + 100 * camAxis, 320),
                              y |-> Term("sin", 35 * e + 100 * camAxis, 220)],
                   pulse |-> [speed |-> 18,
                              x |-> Term("sin", 300 * e, 65),
                              y |-> Term("cos", 150 * e, 45)]]
           entry == IF motionId \in CatalogIds THEN own[motionId] ELSE own.orbit
       IN /\ camSpeed = entry.speed
          /\ camOffset = [x |-> entry.x, y |-> entry.y]
          /\ camOffset.x.fn \in {"sin", "cos"} /\ camOffset.y.fn \in {"sin", "cos"}
          /\ motionId \notin CatalogIds =>
                /\ camSpeed = 10
                /\ camSpeed = GetCameraSpeedMultiplier("orbit")
                /\ camOffset = GetCameraMotionOffset("orbit", camElapsed, camAxis)
          /\ \A a, b \in CatalogIds : a # b => own[a] # own[b]

\* C14 witness: an id the switches do not name was looked up and got orbit's
\* multiplier and orbit's offset
C14_Witness ==
    /\ camDone /\ motionId = "zoom" /\ camElapsed = 2 /\ camAxis = -1
    /\ camSpeed = 10
    /\ camOffset = [x |-> Term("cos", 70, 380), y |-> Term("sin", 60, 200)]

====
